---- MODULE Spec2Model ----
(***************************************************************************)
(* Vivita inventory: the record store driven by SupabaseManager            *)
(* (app/database/supabase_manager.py), the submit handlers of app/main.py  *)
(* and the valuation functions of app/utils/helpers.py and                 *)
(* app/analytics/analytics_manager.py.                                     *)
(*                                                                         *)
(* Spec     the store state machine: items table, transactions ledger and  *)
(*          the handlers that write them, one call at a time.              *)
(* SpecVal  the valuation functions applied to bounded item and            *)
(*          transaction lists.                                             *)
(* SpecBal, SpecAlerts, SpecTop                                            *)
(*          the running balance of the item view, the stock alerts and     *)
(*          the top selling items, each applied to bounded inputs.         *)
(* SpecRace two create_transaction calls interleaved step by step.         *)
(* SpecCreate, SpecForm, SpecDelete, SpecSuppliers                         *)
(*          create_item called directly, the item form, delete_item and    *)
(*          the supplier calls on the same store.                          *)
(* SpecSubmit, SpecReference, SpecBalances                                 *)
(*          the transaction form's submit handler, the reference numbers   *)
(*          of the two create_transaction, and the balance views computed  *)
(*          from the store.                                                *)
(* SpecNavigation                                                          *)
(*          the session state under the click callbacks and main().        *)
(***************************************************************************)
EXTENDS Integers, Sequences, FiniteSets, TLC

\* ------------------------------------------------------------------------
\* Bounds of the model
\* ------------------------------------------------------------------------
MaxLedger == 1
MaxTxns == 2

\* ids the store hands out, and ids a caller can name: the last one never
\* resolves to a row
ItemIds == {1}
RequestedIds == ItemIds \cup {2}
\* quantities a form's number_input(min_value=0) can deliver
FormQuantities == {0, 1}
\* quantities a caller can hand to create_transaction: nothing in it restricts
\* the sign, so a negative magnitude is an input too
TxnQuantities == {0 - 1, 1, 2}
\* quantities and prices the transaction form can deliver; 0 stands for a
\* field left empty
SubmitQuantities == {0, 1}
SubmitPrices == {0, 1}
\* the ways the remote store can fail a write during one call: it rejects the
\* insert into transactions, or the update of the items row.  Reads of an
\* existing row are taken to succeed.
Faults == {"none", "insert", "update"}

\* ------------------------------------------------------------------------
\* Transaction types
\* ------------------------------------------------------------------------
TransactionType ==
    {"purchase", "sale", "adjustment", "return", "transfer_in",
     "transfer_out", "loss", "write_off", "credit_note", "debit_note"}

\* ------------------------------------------------------------------------
\* State
\* ------------------------------------------------------------------------
VARIABLES
    items,             \* the items table: id -> row, DOMAIN = ids that exist
    transactions,      \* the transactions table in created_at order
    initial_quantity,  \* history: quantity each item was created with
    call,              \* history: the last handler call and its outcome
    old_items,         \* history: items table when that call started
    old_transactions,  \* history: ledger when that call started
    val_items,         \* the items list handed to a valuation function
    val_transactions,  \* the transactions list handed to it
    val_out,           \* the function last applied to them and what it returned
    procs,             \* concurrent create_transaction calls: position and locals
    suppliers,         \* the suppliers table: id -> row
    session_state      \* st.session_state: page, navigation and form flags

store_vars == <<items, transactions, initial_quantity, call, old_items, old_transactions>>
val_vars == <<val_items, val_transactions, val_out>>
vars == <<store_vars, val_vars, procs, suppliers, session_state>>

NoCall == [op |-> "none", item_id |-> 0, transaction_type |-> "none",
           quantity |-> 0, unit_price |-> 0, error |-> "none",
           returned |-> FALSE, update_ok |-> TRUE]

\* ------------------------------------------------------------------------
\* SupabaseManager
\* ------------------------------------------------------------------------
\* (variant) an unknown id resolves to an empty default row instead of None
get_item_DefaultRow(item_id) ==
    IF item_id \in DOMAIN items THEN <<items[item_id]>>
    ELSE <<[quantity |-> 0, unit_cost |-> 0, min_quantity |-> 0]>>

\* get_item: the row as a one-element sequence, <<>> for None
get_item(item_id) ==
    IF item_id \in DOMAIN items THEN <<items[item_id]>> ELSE <<>>

\* (variant) "sale" dropped from the list of stock-reducing types
QuantityChange_SaleAdds(transaction_type, quantity) ==
    IF transaction_type \in {"transfer_out", "loss"}
    THEN 0 - quantity
    ELSE quantity

\* the signed change create_transaction applies for a transaction type
QuantityChange(transaction_type, quantity) ==
    IF transaction_type \in {"sale", "transfer_out", "loss"}
    THEN 0 - quantity
    ELSE quantity

NewQuantity(item, transaction_type, quantity) ==
    item.quantity + QuantityChange(transaction_type, quantity)

\* (variant) the validation off by one
WouldBeNegative_OffByOne(new_quantity) == new_quantity < 0 - 1

\* "Transaction would result in negative quantity"
WouldBeNegative(new_quantity) == new_quantity < 0

\* update_item: the row's fields replaced by item_data; None (no change) when
\* the store raised or no row matched
update_item(tbl, item_id, item_data, storeOk) ==
    IF storeOk /\ item_id \in DOMAIN tbl
    THEN [tbl EXCEPT ![item_id] =
            [f \in DOMAIN tbl[item_id] |->
                IF f \in DOMAIN item_data THEN item_data[f] ELSE tbl[item_id][f]]]
    ELSE tbl

TransactionRecord(td) ==
    [item_id |-> td.item_id, transaction_type |-> td.transaction_type,
     quantity |-> td.quantity, unit_price |-> td.unit_price]

Outcome(op, td, error, returned, updateOk) ==
    [op |-> op, item_id |-> td.item_id, transaction_type |-> td.transaction_type,
     quantity |-> td.quantity, unit_price |-> td.unit_price, error |-> error,
     returned |-> returned, update_ok |-> updateOk]

\* (variant) the item's quantity written before the transaction is inserted
CreateTransactionBody_WriteFirst(op, td, fault) ==
    LET found == get_item(td.item_id) IN
    IF found = <<>>
    THEN /\ fault = "none"
         /\ call' = Outcome(op, td, "ItemNotFound", FALSE, TRUE)
         /\ UNCHANGED <<items, transactions>>
    ELSE LET new_quantity == NewQuantity(found[1], td.transaction_type, td.quantity)
         IN  IF WouldBeNegative(new_quantity)
             THEN /\ fault = "none"
                  /\ call' = Outcome(op, td, "NegativeQuantity", FALSE, TRUE)
                  /\ UNCHANGED <<items, transactions>>
             ELSE /\ Len(transactions) < MaxLedger
                  /\ items' = update_item(items, td.item_id,
                                          [quantity |-> new_quantity],
                                          fault # "update")
                  /\ IF fault = "insert"
                     THEN /\ call' = Outcome(op, td, "InsertFailed", FALSE, TRUE)
                          /\ UNCHANGED transactions
                     ELSE /\ transactions' =
                                Append(transactions, TransactionRecord(td))
                          /\ call' = Outcome(op, td, "none", TRUE,
                                             fault # "update")

\* the body of create_transaction, shared by the direct call and the handler.
\* A call that raises before the insert touches the store for reading only, so
\* it is enumerated once, with no write fault.
CreateTransactionBody(op, td, fault) ==
    LET found == get_item(td.item_id)
        insertOk == fault # "insert"
        updateOk == fault # "update"
    IN
    IF found = <<>>
    THEN /\ fault = "none"
         /\ call' = Outcome(op, td, "ItemNotFound", FALSE, TRUE)
         /\ UNCHANGED <<items, transactions>>
    ELSE LET item == found[1]
             new_quantity == NewQuantity(item, td.transaction_type, td.quantity)
         IN  IF WouldBeNegative(new_quantity)
             THEN /\ fault = "none"
                  /\ call' = Outcome(op, td, "NegativeQuantity", FALSE, TRUE)
                  /\ UNCHANGED <<items, transactions>>
             ELSE IF ~insertOk
             THEN /\ call' = Outcome(op, td, "InsertFailed", FALSE, TRUE)
                  /\ UNCHANGED <<items, transactions>>
             ELSE /\ Len(transactions) < MaxLedger
                  /\ transactions' = Append(transactions, TransactionRecord(td))
                  /\ items' = update_item(items, td.item_id,
                                          [quantity |-> new_quantity], updateOk)
                  /\ call' = Outcome(op, td, "none", TRUE, updateOk)

TransactionData ==
    [item_id : RequestedIds, transaction_type : TransactionType,
     quantity : TxnQuantities, unit_price : {1}]

create_transaction ==
    \E td \in TransactionData, fault \in Faults :
        /\ CreateTransactionBody("create_transaction", td, fault)
        /\ old_items' = items
        /\ old_transactions' = transactions
        /\ UNCHANGED <<initial_quantity, val_vars, procs, suppliers, session_state>>

\* ------------------------------------------------------------------------
\* app/main.py: the submit handlers
\* ------------------------------------------------------------------------
SubmittedTransactions ==
    [item_id : RequestedIds, transaction_type : TransactionType,
     quantity : SubmitQuantities, unit_price : SubmitPrices]

\* required fields that are falsy: item_id and transaction_type are always
\* chosen, a quantity or unit_price of 0 counts as missing
MissingFields(td) ==
    {f \in {"quantity", "unit_price"} : td[f] = 0}

handle_transaction_submit ==
    \E td \in SubmittedTransactions, fault \in Faults :
        LET found == get_item(td.item_id) IN
        /\ IF MissingFields(td) # {}
           THEN /\ fault = "none"
                /\ call' = Outcome("handle_transaction_submit", td,
                                   "MissingFields", FALSE, TRUE)
                /\ UNCHANGED <<items, transactions>>
           ELSE IF found = <<>>
           THEN /\ fault = "none"
                /\ call' = Outcome("handle_transaction_submit", td,
                                   "ItemNotFound", FALSE, TRUE)
                /\ UNCHANGED <<items, transactions>>
           ELSE IF td.transaction_type = "sale" /\ td.quantity > found[1].quantity
           THEN /\ fault = "none"
                /\ call' = Outcome("handle_transaction_submit", td,
                                   "NotEnoughStock", FALSE, TRUE)
                /\ UNCHANGED <<items, transactions>>
           ELSE CreateTransactionBody("handle_transaction_submit", td, fault)
        /\ old_items' = items
        /\ old_transactions' = transactions
        /\ UNCHANGED <<initial_quantity, val_vars, procs, suppliers, session_state>>

\* what the item form hands over: unit_cost and min_quantity are required and
\* therefore non-zero, the quantity comes from a number_input(min_value=0)
ItemData ==
    [quantity : FormQuantities, unit_cost : {1}, min_quantity : {1}]

ItemOutcome(item_id, quantity, error) ==
    [op |-> "handle_item_submit", item_id |-> item_id,
     transaction_type |-> "none", quantity |-> quantity, unit_price |-> 0,
     error |-> error, returned |-> error = "none", update_ok |-> TRUE]

\* create_item: the validated row inserted under an id the store assigns;
\* None when the store raised
create_item(tbl, item_id, item_data, storeOk) ==
    IF storeOk
    THEN [i \in DOMAIN tbl \cup {item_id} |->
            IF i = item_id THEN item_data ELSE tbl[i]]
    ELSE tbl

\* handle_item_submit without "id": db.create_item(item_data)
handle_item_submit_create ==
    \E item_data \in ItemData, item_id \in ItemIds \ DOMAIN items,
       fault \in {"none", "insert"} :
        /\ items' = create_item(items, item_id, item_data, fault = "none")
        /\ initial_quantity' =
              IF fault = "none"
              THEN [i \in DOMAIN initial_quantity \cup {item_id} |->
                      IF i = item_id THEN item_data.quantity
                      ELSE initial_quantity[i]]
              ELSE initial_quantity
        /\ call' = ItemOutcome(item_id, item_data.quantity,
                               IF fault = "none" THEN "none" ELSE "CreateFailed")
        /\ old_items' = items
        /\ old_transactions' = transactions
        /\ UNCHANGED <<transactions, val_vars, procs, suppliers, session_state>>

\* handle_item_submit with "id": db.update_item(id, item_data), which
\* overwrites every field of the form, the quantity included
handle_item_submit_update ==
    \E item_data \in ItemData, item_id \in DOMAIN items,
       fault \in {"none", "update"} :
        /\ items' = update_item(items, item_id, item_data, fault = "none")
        /\ call' = ItemOutcome(item_id, item_data.quantity,
                               IF fault = "none" THEN "none" ELSE "UpdateFailed")
        /\ old_items' = items
        /\ old_transactions' = transactions
        /\ UNCHANGED <<transactions, initial_quantity, val_vars, procs, suppliers, session_state>>

\* ------------------------------------------------------------------------
\* Specification of the store
\* ------------------------------------------------------------------------
\* two callers of create_transaction (two sessions on one store)
Callers == {1, 2}

Idle == [pc |-> "idle", td |-> [item_id |-> 0, transaction_type |-> "none",
                               quantity |-> 0, unit_price |-> 0],
         new_quantity |-> 0]

\* initialize_session_state on a fresh session; 0 and "none" stand for None
InitialSessionState ==
    [page |-> "dashboard", nav_page |-> "dashboard",
     show_new_item_form |-> FALSE, show_new_transaction_form |-> FALSE,
     selected_item_id |-> 0, default_transaction_type |-> "none",
     editing_item |-> 0, quick_update_item |-> 0]

InitStore ==
    /\ session_state = InitialSessionState
    /\ procs = [p \in Callers |-> Idle]
    /\ suppliers = [i \in {} |-> [name |-> "", is_active |-> TRUE]]
    /\ items = [i \in {} |-> [quantity |-> 0, unit_cost |-> 0, min_quantity |-> 0]]
    /\ transactions = <<>>
    /\ initial_quantity = [i \in {} |-> 0]
    /\ call = NoCall
    /\ old_items = items
    /\ old_transactions = transactions

NoOut == [fn |-> "none", value |-> [num |-> 0, den |-> 1]]

Init ==
    /\ InitStore
    /\ val_items = <<>>
    /\ val_transactions = <<>>
    /\ val_out = NoOut

Next ==
    \/ create_transaction
    \/ handle_item_submit_create
    \/ handle_item_submit_update

Spec == Init /\ [][Next]_vars

\* the same store driven through the transaction form only
NextSubmit ==
    \/ handle_transaction_submit
    \/ handle_item_submit_create
    \/ handle_item_submit_update

SpecSubmit == Init /\ [][NextSubmit]_vars

\* ------------------------------------------------------------------------
\* Valuation functions (app/utils/helpers.py, app/analytics/analytics_manager.py)
\*
\* A Decimal is kept as an exact fraction num/den in lowest terms, den > 0.
\* den = 0 stands for the decimal exception raised by a division by zero,
\* which aborts the function and becomes its outcome.  Decimal's rounding of
\* a quotient to 28 significant digits is not represented.
\* ------------------------------------------------------------------------
ValItemIds == {1, 2}
ValItemQuantities == {1, 2}
ValUnitCosts == {3}
ValTransactionTypes == {"purchase", "sale"}
ValQuantities == {0, 1, 2}
ValUnitPrices == {1, 2}

DivisionByZero == [num |-> 0, den |-> 0]

Abs(n) == IF n < 0 THEN 0 - n ELSE n

RECURSIVE GCD(_, _)
GCD(a, b) == IF b = 0 THEN a ELSE GCD(b, a % b)

\* num/den with den > 0, reduced to lowest terms
Frac(num, den) ==
    LET g == GCD(Abs(num), den)
    IN  [num |-> num \div g, den |-> den \div g]

Decimal(n) == [num |-> n, den |-> 1]

DecAdd(a, b) ==
    IF a.den = 0 \/ b.den = 0 THEN DivisionByZero
    ELSE Frac(a.num * b.den + b.num * a.den, a.den * b.den)

DecMul(a, b) ==
    IF a.den = 0 \/ b.den = 0 THEN DivisionByZero
    ELSE Frac(a.num * b.num, a.den * b.den)

DecDiv(a, b) ==
    IF a.den = 0 \/ b.den = 0 \/ b.num = 0 THEN DivisionByZero
    ELSE IF b.num > 0 THEN Frac(a.num * b.den, a.den * b.num)
    ELSE Frac(0 - a.num * b.den, 0 - a.den * b.num)

DecPositive(a) == a.den # 0 /\ a.num > 0

\* the accumulation loop over purchases: <<total_cost, total_quantity>>
RECURSIVE PurchaseTotals(_, _, _, _)
PurchaseTotals(txns, k, total_cost, total_quantity) ==
    IF k > Len(txns) THEN <<total_cost, total_quantity>>
    ELSE IF txns[k].transaction_type = "purchase"
         THEN LET quantity == Decimal(txns[k].quantity)
                  unit_price == Decimal(txns[k].unit_price)
              IN  PurchaseTotals(txns, k + 1,
                                 DecAdd(total_cost, DecMul(quantity, unit_price)),
                                 DecAdd(total_quantity, quantity))
         ELSE PurchaseTotals(txns, k + 1, total_cost, total_quantity)

calculate_weighted_average_cost_Unguarded(txns) ==
    LET totals == PurchaseTotals(txns, 1, Decimal(0), Decimal(0))
    IN  DecDiv(totals[1], totals[2])

calculate_weighted_average_cost(txns) ==
    LET totals == PurchaseTotals(txns, 1, Decimal(0), Decimal(0))
    IN  IF DecPositive(totals[2]) THEN DecDiv(totals[1], totals[2])
        ELSE Decimal(0)

\* the transactions of one item, in list order
ItemTransactions(txns, item_id) ==
    SelectSeq(txns, LAMBDA t : t.item_id = item_id)

\* helpers.calculate_total_value: the unit cost used for one item
helpers_unit_cost(item, txns) ==
    IF txns # <<>>
    THEN LET item_transactions == ItemTransactions(txns, item.id)
         IN  IF item_transactions # <<>>
             THEN calculate_weighted_average_cost(item_transactions)
             ELSE Decimal(item.unit_cost)
    ELSE Decimal(item.unit_cost)

RECURSIVE helpers_total(_, _, _, _)
helpers_total(its, txns, k, total) ==
    IF k > Len(its) THEN total
    ELSE helpers_total(its, txns, k + 1,
             DecAdd(total, DecMul(Decimal(its[k].quantity),
                                  helpers_unit_cost(its[k], txns))))

helpers_calculate_total_value(its, txns) ==
    helpers_total(its, txns, 1, Decimal(0))

\* analytics_manager.calculate_total_value: what one item adds to the total
analytics_item_value_LastPurchase(item, txns) ==
    LET item_transactions == ItemTransactions(txns, item.id)
        purchases == SelectSeq(item_transactions,
                               LAMBDA t : t.transaction_type = "purchase")
        current_quantity == Decimal(item.quantity)
    IN  IF purchases = <<>>
        THEN DecMul(current_quantity, Decimal(item.unit_cost))
        ELSE DecMul(current_quantity,
                    Decimal(purchases[Len(purchases)].unit_price))

analytics_item_value(item, txns) ==
    LET item_transactions == ItemTransactions(txns, item.id)
        current_quantity == Decimal(item.quantity)
    IN  IF item_transactions = <<>>
        THEN DecMul(current_quantity, Decimal(item.unit_cost))
        ELSE LET totals == PurchaseTotals(item_transactions, 1,
                                          Decimal(0), Decimal(0))
             IN  IF DecPositive(totals[2])
                 THEN DecMul(current_quantity, DecDiv(totals[1], totals[2]))
                 ELSE DecMul(current_quantity, Decimal(item.unit_cost))

RECURSIVE analytics_total(_, _, _, _)
analytics_total(its, txns, k, total_value) ==
    IF k > Len(its) THEN total_value
    ELSE analytics_total(its, txns, k + 1,
             DecAdd(total_value, analytics_item_value(its[k], txns)))

analytics_calculate_total_value(its, txns) ==
    analytics_total(its, txns, 1, Decimal(0))

\* ------------------------------------------------------------------------
\* Specification of the valuation functions: the lists are drawn at the
\* start, each step applies one function to them
\* ------------------------------------------------------------------------
ValItem == [id : ValItemIds, quantity : ValItemQuantities, unit_cost : ValUnitCosts]

\* item lists without repeated ids
ValItemLists ==
    {<<>>} \cup {<<i>> : i \in ValItem}
           \cup {<<i, j>> : i \in {x \in ValItem : x.id = 1},
                            j \in {x \in ValItem : x.id = 2}}

ValTransaction ==
    [item_id : ValItemIds, transaction_type : ValTransactionTypes,
     quantity : ValQuantities, unit_price : ValUnitPrices]

ValTransactionLists == UNION {[1..n -> ValTransaction] : n \in 0..MaxTxns}

InitVal ==
    /\ InitStore
    /\ val_items \in ValItemLists
    /\ val_transactions \in ValTransactionLists
    /\ val_out = NoOut

Returned(fn, value) == [fn |-> fn, value |-> value]

call_weighted_average_cost ==
    /\ val_out' = Returned("calculate_weighted_average_cost",
                           calculate_weighted_average_cost(val_transactions))
    /\ UNCHANGED <<store_vars, val_items, val_transactions, procs, suppliers, session_state>>

call_helpers_total_value ==
    /\ val_out' = Returned("helpers.calculate_total_value",
                           helpers_calculate_total_value(val_items, val_transactions))
    /\ UNCHANGED <<store_vars, val_items, val_transactions, procs, suppliers, session_state>>

call_analytics_total_value ==
    /\ val_out' = Returned("analytics.calculate_total_value",
                           analytics_calculate_total_value(val_items, val_transactions))
    /\ UNCHANGED <<store_vars, val_items, val_transactions, procs, suppliers, session_state>>

NextVal ==
    \/ call_weighted_average_cost
    \/ call_helpers_total_value
    \/ call_analytics_total_value

SpecVal == InitVal /\ [][NextVal]_vars

\* ------------------------------------------------------------------------
\* Running balance of the item view (app/main.py, render_transactions_page)
\* ------------------------------------------------------------------------
BalItemQuantities == {0, 1, 2}
BalTransactionTypes == {"purchase", "sale", "adjustment", "transfer_in"}
BalQuantities == {1, 2}
BalCreatedAt == {1, 2}

\* sorted(..., key=created_at): stable, equal keys keep their list order
RECURSIVE InsertByCreatedAt(_, _)
InsertByCreatedAt(sorted, t) ==
    IF sorted = <<>> THEN <<t>>
    ELSE IF sorted[Len(sorted)].created_at <= t.created_at THEN Append(sorted, t)
    ELSE Append(InsertByCreatedAt(SubSeq(sorted, 1, Len(sorted) - 1), t),
                sorted[Len(sorted)])

RECURSIVE sorted_by_created_at(_)
sorted_by_created_at(txns) ==
    IF txns = <<>> THEN <<>>
    ELSE InsertByCreatedAt(sorted_by_created_at(SubSeq(txns, 1, Len(txns) - 1)),
                           txns[Len(txns)])

\* the backward pass from the current quantity, k from Len(item_trans) to 1
RECURSIVE initial_balance(_, _, _)
initial_balance(item_trans, k, current_balance) ==
    IF k = 0 THEN current_balance
    ELSE LET t == item_trans[k]
         IN  initial_balance(item_trans, k - 1,
                 IF t.transaction_type = "purchase" THEN current_balance - t.quantity
                 ELSE IF t.transaction_type = "sale" THEN current_balance + t.quantity
                 ELSE IF t.transaction_type = "adjustment" THEN current_balance - t.quantity
                 ELSE current_balance)

\* the forward pass: the Balance column, oldest first
RECURSIVE running_balances(_, _, _)
running_balances(item_trans, k, running_balance) ==
    IF k > Len(item_trans) THEN <<>>
    ELSE LET t == item_trans[k]
             quantity_change == IF t.transaction_type = "sale"
                                THEN 0 - t.quantity ELSE t.quantity
         IN  <<running_balance + quantity_change>>
                \o running_balances(item_trans, k + 1, running_balance + quantity_change)

\* the balances shown for one item; nothing is shown for an item without
\* transactions
item_view_balances(item, txns) ==
    LET item_trans == sorted_by_created_at(ItemTransactions(txns, item.id))
    IN  IF item_trans = <<>> THEN <<>>
        ELSE running_balances(item_trans, 1,
                 initial_balance(item_trans, Len(item_trans), item.quantity))

BalItem == [id : {1}, quantity : BalItemQuantities, unit_cost : ValUnitCosts]

BalTransaction ==
    [item_id : ValItemIds, transaction_type : BalTransactionTypes,
     quantity : BalQuantities, unit_price : {1}, created_at : BalCreatedAt]

InitBal ==
    /\ InitStore
    /\ val_items \in {<<i>> : i \in BalItem}
    /\ val_transactions \in UNION {[1..n -> BalTransaction] : n \in 0..MaxTxns}
    /\ val_out = NoOut

render_item_view ==
    /\ val_out' = Returned("item_view_balances",
                           item_view_balances(val_items[1], val_transactions))
    /\ UNCHANGED <<store_vars, val_items, val_transactions, procs, suppliers, session_state>>

NextBal == render_item_view

SpecBal == InitBal /\ [][NextBal]_vars

\* ------------------------------------------------------------------------
\* Concurrent create_transaction calls: each call is three steps on the
\* store, the read of the item (with the local computation and checks that
\* follow it), the insert into the ledger and the update of the item; steps
\* of different callers interleave freely.  No store fault is injected here.
\* ------------------------------------------------------------------------
RaceInitialQuantities == {1, 2}
RaceTransactionTypes == {"purchase", "sale"}
RaceQuantities == {1, 2}

RaceTransactionData ==
    [item_id : RequestedIds, transaction_type : RaceTransactionTypes,
     quantity : RaceQuantities, unit_price : {1}]

InitRace ==
    /\ session_state = InitialSessionState
    /\ \E q \in RaceInitialQuantities :
          /\ items = [i \in ItemIds |-> [quantity |-> q, unit_cost |-> 1, min_quantity |-> 1]]
          /\ initial_quantity = [i \in ItemIds |-> q]
    /\ transactions = <<>>
    /\ call = NoCall
    /\ old_items = items
    /\ old_transactions = transactions
    /\ val_items = <<>>
    /\ val_transactions = <<>>
    /\ val_out = NoOut
    /\ procs = [p \in Callers |-> Idle]
    /\ suppliers = [i \in {} |-> [name |-> "", is_active |-> TRUE]]

\* (variant) the read without the check of the new quantity
race_read_Unchecked(p) ==
    /\ procs[p].pc = "idle"
    /\ \E td \in RaceTransactionData :
          LET found == get_item(td.item_id)
          IN  IF found = <<>>
              THEN procs' = [procs EXCEPT ![p] = [pc |-> "raised", td |-> td, new_quantity |-> 0]]
              ELSE procs' = [procs EXCEPT ![p] =
                      [pc |-> "insert", td |-> td,
                       new_quantity |-> NewQuantity(found[1], td.transaction_type,
                                                    td.quantity)]]
    /\ UNCHANGED <<store_vars, val_vars, suppliers, session_state>>

\* get_item, quantity_change, new_quantity and the two raises before any write
race_read(p) ==
    /\ procs[p].pc = "idle"
    /\ \E td \in RaceTransactionData :
          LET found == get_item(td.item_id)
          IN  IF found = <<>>
              THEN procs' = [procs EXCEPT ![p] = [pc |-> "raised", td |-> td, new_quantity |-> 0]]
              ELSE LET new_quantity == NewQuantity(found[1], td.transaction_type, td.quantity)
                   IN  IF WouldBeNegative(new_quantity)
                       THEN procs' = [procs EXCEPT ![p] = [pc |-> "raised", td |-> td,
                                                           new_quantity |-> new_quantity]]
                       ELSE procs' = [procs EXCEPT ![p] = [pc |-> "insert", td |-> td,
                                                           new_quantity |-> new_quantity]]
    /\ UNCHANGED <<store_vars, val_vars, suppliers, session_state>>

race_insert_Overwrite(p) ==
    /\ procs[p].pc = "insert"
    /\ transactions' = <<TransactionRecord(procs[p].td)>>
    /\ procs' = [procs EXCEPT ![p].pc = "update"]
    /\ UNCHANGED <<items, initial_quantity, call, old_items, old_transactions, val_vars, suppliers, session_state>>

\* the insert of the transaction record
race_insert(p) ==
    /\ procs[p].pc = "insert"
    /\ transactions' = Append(transactions, TransactionRecord(procs[p].td))
    /\ procs' = [procs EXCEPT ![p].pc = "update"]
    /\ UNCHANGED <<items, initial_quantity, call, old_items, old_transactions, val_vars, suppliers, session_state>>

WrittenQuantity_ReadAtWrite(p) ==
    NewQuantity(items[procs[p].td.item_id], procs[p].td.transaction_type,
                procs[p].td.quantity)

\* the quantity handed to update_item: the one computed after the read
WrittenQuantity(p) == procs[p].new_quantity

\* the update of the item, then the return
race_update(p) ==
    /\ procs[p].pc = "update"
    /\ items' = update_item(items, procs[p].td.item_id,
                            [quantity |-> WrittenQuantity(p)], TRUE)
    /\ procs' = [procs EXCEPT ![p].pc = "returned"]
    /\ UNCHANGED <<transactions, initial_quantity, call, old_items, old_transactions, val_vars, suppliers, session_state>>

NextRace ==
    \E p \in Callers : race_read(p) \/ race_insert(p) \/ race_update(p)

SpecRace == InitRace /\ [][NextRace]_vars

\* ------------------------------------------------------------------------
\* Stock alerts (SupabaseManager.get_low_stock_items,
\* AnalyticsManager.get_stock_alerts) over a bounded items table
\* ------------------------------------------------------------------------
AlertItemIds == {1, 2, 3}
AlertQuantities == {0, 2, 5, 6}
AlertMinQuantities == {0, 5}

get_low_stock_items_Strict(rows) ==
    SelectSeq(rows, LAMBDA item : item.quantity < item.min_quantity)

get_low_stock_items(rows) ==
    SelectSeq(rows, LAMBDA item : item.quantity <= item.min_quantity)

RECURSIVE alerts_of(_, _)
alerts_of(low_stock_items, k) ==
    IF k > Len(low_stock_items) THEN <<>>
    ELSE LET item == low_stock_items[k]
         IN  <<[id |-> item.id,
                current_quantity |-> item.quantity,
                min_quantity |-> item.min_quantity,
                shortage |-> item.min_quantity - item.quantity]>>
             \o alerts_of(low_stock_items, k + 1)

get_stock_alerts(rows) == alerts_of(get_low_stock_items(rows), 1)

AlertItem(id) ==
    [id : {id}, quantity : AlertQuantities, min_quantity : AlertMinQuantities,
     unit_cost : {1, 3}]

\* tables of distinct rows, in id order
RECURSIVE AlertTables(_)
AlertTables(n) ==
    IF n = 0 THEN {<<>>}
    ELSE LET shorter == AlertTables(n - 1)
         IN  shorter \cup {Append(t, i) : t \in shorter, i \in AlertItem(n)}

InitAlerts ==
    /\ InitStore
    /\ val_items \in AlertTables(Cardinality(AlertItemIds))
    /\ val_transactions = <<>>
    /\ val_out = NoOut

call_get_stock_alerts ==
    /\ val_out' = Returned("get_stock_alerts", get_stock_alerts(val_items))
    /\ UNCHANGED <<store_vars, val_items, val_transactions, procs, suppliers, session_state>>

\* sorted(alerts, key=...), ascending and stable; the key is
\* x['quantity'] / x['min_quantity'], or float('inf') when min_quantity is 0
sorted_by_ratio(alerts) ==
    LET n == Len(alerts)
        ratio_le(a, b) ==
            IF b.min_quantity = 0 THEN TRUE
            ELSE IF a.min_quantity = 0 THEN FALSE
            ELSE a.quantity * b.min_quantity <= b.quantity * a.min_quantity
        p == CHOOSE f \in Permutations(1..n) :
                \A i, j \in 1..n :
                    i < j => /\ ratio_le(alerts[f[i]], alerts[f[j]])
                             /\ ratio_le(alerts[f[j]], alerts[f[i]]) => f[i] < f[j]
    IN  [k \in 1..n |-> alerts[p[k]]]

\* Dashboard.render_stock_alerts up to the expander titles: the alerts of
\* get_stock_alerts carry 'current_quantity' but the sort key and the title
\* read x['quantity'], which raises KeyError when the key is looked up
render_stock_alerts(alerts) ==
    IF alerts = <<>> THEN [raised |-> "none", critical_items |-> <<>>]
    ELSE IF \E k \in 1..Len(alerts) :
                alerts[k].min_quantity > 0 /\ "quantity" \notin DOMAIN alerts[k]
    THEN [raised |-> "KeyError", critical_items |-> <<>>]
    ELSE LET sorted == sorted_by_ratio(alerts)
             critical_items ==
                 SubSeq(sorted, 1, IF Len(sorted) < 5 THEN Len(sorted) ELSE 5)
         IN  [raised |-> IF \E k \in 1..Len(critical_items) :
                                "quantity" \notin DOMAIN critical_items[k]
                         THEN "KeyError" ELSE "none",
              critical_items |-> critical_items]

call_render_stock_alerts ==
    /\ val_out' = Returned("render_stock_alerts",
                           render_stock_alerts(get_stock_alerts(val_items)))
    /\ UNCHANGED <<store_vars, val_items, val_transactions, procs, suppliers, session_state>>

get_inventory_summary_StrictCount(its, txns) ==
    [total_items |-> Len(its),
     total_value |-> analytics_calculate_total_value(its, txns),
     avg_unit_cost |-> Decimal(0),
     low_stock_count |->
         Cardinality({k \in 1..Len(its) : its[k].quantity < its[k].min_quantity})]

\* AnalyticsManager.get_inventory_summary on the rows get_items and
\* get_transactions return; total_value is the module's own
\* calculate_total_value
get_inventory_summary(its, txns) ==
    IF its = <<>>
    THEN [total_items |-> 0, total_value |-> Decimal(0),
          avg_unit_cost |-> Decimal(0), low_stock_count |-> 0]
    ELSE LET total_items == Len(its)
             RECURSIVE total_unit_costs(_)
             total_unit_costs(k) ==
                 IF k > Len(its) THEN Decimal(0)
                 ELSE DecAdd(Decimal(its[k].unit_cost), total_unit_costs(k + 1))
         IN  [total_items |-> total_items,
              total_value |-> analytics_calculate_total_value(its, txns),
              avg_unit_cost |-> DecDiv(total_unit_costs(1), Decimal(total_items)),
              low_stock_count |->
                  Cardinality({k \in 1..Len(its) :
                                  its[k].quantity <= its[k].min_quantity})]

call_get_inventory_summary ==
    /\ val_out' = Returned("get_inventory_summary",
                           get_inventory_summary(val_items, val_transactions))
    /\ UNCHANGED <<store_vars, val_items, val_transactions, procs, suppliers, session_state>>

NextAlerts ==
    \/ call_get_stock_alerts
    \/ call_render_stock_alerts
    \/ call_get_inventory_summary

SpecAlerts == InitAlerts /\ [][NextAlerts]_vars

\* ------------------------------------------------------------------------
\* Top selling items (AnalyticsManager.get_top_selling_items) applied to
\* the transactions the store returns for the window and to the items list
\* ------------------------------------------------------------------------
TopLimit == 5
TopItemIds == 1..6

\* sales_data after the loop over the transactions: item_id -> totals, for
\* the items that have a sale
RECURSIVE sales_data_of(_, _, _)
sales_data_of(txns, k, sales_data) ==
    IF k > Len(txns) THEN sales_data
    ELSE LET trans == txns[k]
             item_id == trans.item_id
             before == IF item_id \in DOMAIN sales_data THEN sales_data[item_id]
                       ELSE [units_sold |-> 0, revenue |-> 0]
             after == [units_sold |-> before.units_sold + trans.quantity,
                       revenue |-> before.revenue + trans.quantity * trans.unit_price]
         IN  IF trans.transaction_type # "sale"
             THEN sales_data_of(txns, k + 1, sales_data)
             ELSE sales_data_of(txns, k + 1,
                      [i \in DOMAIN sales_data \cup {item_id} |->
                          IF i = item_id THEN after ELSE sales_data[i]])

\* float(Decimal) of a whole number below 2^53 is that number
float_of(n) == n

\* the entries of the items that have sales, in item-list order
RECURSIVE result_of(_, _, _)
result_of(its, k, sales_data) ==
    IF k > Len(its) THEN <<>>
    ELSE (IF its[k].id \in DOMAIN sales_data
          THEN <<[name |-> its[k].id,
                  units_sold |-> sales_data[its[k].id].units_sold,
                  revenue |-> float_of(sales_data[its[k].id].revenue)]>>
          ELSE <<>>)
         \o result_of(its, k + 1, sales_data)

RECURSIVE insert_by_revenue_Unstable(_, _)
insert_by_revenue_Unstable(sorted, e) ==
    IF sorted = <<>> THEN <<e>>
    ELSE IF sorted[Len(sorted)].revenue > e.revenue THEN Append(sorted, e)
    ELSE Append(insert_by_revenue_Unstable(SubSeq(sorted, 1, Len(sorted) - 1), e),
                sorted[Len(sorted)])

\* list.sort(key=revenue, reverse=True): descending and stable, entries of
\* equal revenue keep their order
RECURSIVE insert_by_revenue(_, _)
insert_by_revenue(sorted, e) ==
    IF sorted = <<>> THEN <<e>>
    ELSE IF sorted[Len(sorted)].revenue >= e.revenue THEN Append(sorted, e)
    ELSE Append(insert_by_revenue(SubSeq(sorted, 1, Len(sorted) - 1), e),
                sorted[Len(sorted)])

RECURSIVE sort_by_revenue(_)
sort_by_revenue(result) ==
    IF result = <<>> THEN <<>>
    ELSE insert_by_revenue(sort_by_revenue(SubSeq(result, 1, Len(result) - 1)),
                           result[Len(result)])

first_five_All(result) == result

\* result[:5]
first_five(result) ==
    SubSeq(result, 1, IF Len(result) < TopLimit THEN Len(result) ELSE TopLimit)

get_top_selling_items(its, txns) ==
    IF txns = <<>> THEN <<>>
    ELSE first_five(sort_by_revenue(
             result_of(its, 1, sales_data_of(txns, 1, [i \in {} |-> 0]))))

\* the window's transactions: per item no sale or one sale of 1 or 2 units
\* at price 1, in id order, followed by at most one more transaction of any
\* item, either type, 1 or 2 units at price 1 or 2
RECURSIVE TopBaseList(_, _)
TopBaseList(base, k) ==
    IF k > Cardinality(TopItemIds) THEN <<>>
    ELSE (IF base[k] = 0 THEN <<>>
          ELSE <<[item_id |-> k, transaction_type |-> "sale",
                  quantity |-> base[k], unit_price |-> 1]>>)
         \o TopBaseList(base, k + 1)

TopExtra ==
    {<<>>} \cup {<<t>> : t \in [item_id : TopItemIds,
                                transaction_type : {"sale", "purchase"},
                                quantity : {1, 2}, unit_price : {1, 2}]}

TopItemLists ==
    {<<>>, [k \in 1..6 |-> [id |-> k]], [k \in 1..6 |-> [id |-> 7 - k]],
     [k \in 1..5 |-> [id |-> k]]}

InitTop ==
    /\ InitStore
    /\ val_items \in TopItemLists
    /\ val_transactions \in
          {TopBaseList(base, 1) \o extra : base \in [TopItemIds -> {0, 1, 2}],
                                           extra \in TopExtra}
    /\ val_out = NoOut

call_get_top_selling_items ==
    /\ val_out' = Returned("get_top_selling_items",
                           get_top_selling_items(val_items, val_transactions))
    /\ UNCHANGED <<store_vars, val_items, val_transactions, procs, suppliers, session_state>>

NextTop == call_get_top_selling_items

SpecTop == InitTop /\ [][NextTop]_vars

\* ------------------------------------------------------------------------
\* SupabaseManager.create_item called directly with arbitrary item data:
\* a set of present fields and, for the numeric ones, a value that is a
\* number, a numeric string, another string or None
\* ------------------------------------------------------------------------
required_fields == {"name", "category", "unit_type", "quantity", "unit_cost", "min_quantity"}

RawValues == {[kind |-> "number", n |-> 1], [kind |-> "numeric_string", n |-> 2],
              [kind |-> "string", n |-> 0], [kind |-> "None", n |-> 0]}

RawItemData ==
    [fields : SUBSET required_fields, quantity : RawValues,
     unit_cost : {v \in RawValues : v.kind \in {"number", "string"}},
     min_quantity : {v \in RawValues : v.kind \in {"number", "string"}}]

missing_fields(item_data) == required_fields \ item_data.fields

\* int() and float() raise ValueError on a string that is no number and
\* TypeError on None
Converts(v) == v.kind \in {"number", "numeric_string"}

\* what the body of the try block does before the insert
create_item_checks(item_data) ==
    IF missing_fields(item_data) # {} THEN "ValueError: Missing required fields"
    ELSE IF ~(Converts(item_data.quantity) /\ Converts(item_data.min_quantity)
              /\ Converts(item_data.unit_cost))
         THEN "ValueError: Invalid numeric value"
         ELSE "none"

\* the outcome of the call: every exception of the try block is caught by
\* "except Exception", printed, and None is returned
CreateItemOutcome(item_data, error, returned) ==
    [op |-> "create_item", item_data |-> item_data, error |-> error,
     raised |-> "none", returned |-> returned]

call_create_item ==
    \E item_data \in RawItemData :
        /\ LET error == create_item_checks(item_data)
           IN  IF error # "none"
               THEN /\ call' = CreateItemOutcome(item_data, error, "None")
                    /\ UNCHANGED <<items, initial_quantity>>
               ELSE \E item_id \in ItemIds \ DOMAIN items, fault \in {"none", "insert"} :
                    LET row == [quantity |-> item_data.quantity.n,
                                unit_cost |-> item_data.unit_cost.n,
                                min_quantity |-> item_data.min_quantity.n]
                    IN  /\ items' = create_item(items, item_id, row, fault = "none")
                        /\ initial_quantity' =
                              IF fault = "none"
                              THEN [i \in DOMAIN items \cup {item_id} |->
                                      IF i = item_id THEN row.quantity
                                      ELSE initial_quantity[i]]
                              ELSE initial_quantity
                        /\ call' = CreateItemOutcome(item_data,
                                       IF fault = "none" THEN "none" ELSE "InsertFailed",
                                       IF fault = "none" THEN "row" ELSE "None")
        /\ old_items' = items
        /\ old_transactions' = transactions
        /\ UNCHANGED <<transactions, val_vars, procs, suppliers, session_state>>

NextCreate == call_create_item

SpecCreate == Init /\ [][NextCreate]_vars

\* ------------------------------------------------------------------------
\* ItemForm.render on a submitted form (app/components/forms.py) with
\* handle_item_submit of app/main.py as its on_submit callback
\* ------------------------------------------------------------------------
ItemFormInputs ==
    [name : {"", "Test Item"}, unit_cost : {0, 5}, min_quantity : {0, 2},
     initial_qty : {0, 1, 2}]

\* "not value" over the required fields; category and unit_type come from
\* select boxes and are never empty
ItemFormMissing(form) ==
    {f \in {"name", "unit_cost", "min_quantity"} :
        IF f = "name" THEN form[f] = "" ELSE form[f] = 0}

ItemFormOutcome(form, existing_item, called, ok) ==
    [op |-> "ItemForm.render", form |-> form, existing_item |-> existing_item,
     on_submit_called |-> called, returned |-> ok]

\* existing_item = 0 stands for a form opened without an existing item
ItemForm_render ==
    \E form \in ItemFormInputs, existing_item \in {0} \cup DOMAIN items,
       fault \in {"none", "store"} :
        LET data == [quantity |-> form.initial_qty, unit_cost |-> form.unit_cost,
                     min_quantity |-> form.min_quantity]
        IN  /\ IF ItemFormMissing(form) # {}
               THEN /\ fault = "none"
                    /\ call' = ItemFormOutcome(form, existing_item, FALSE, FALSE)
                    /\ UNCHANGED <<items, initial_quantity>>
               ELSE IF existing_item # 0
               THEN /\ items' = update_item(items, existing_item, data, fault = "none")
                    /\ call' = ItemFormOutcome(form, existing_item, TRUE, fault = "none")
                    /\ UNCHANGED initial_quantity
               ELSE \E item_id \in ItemIds \ DOMAIN items :
                    /\ items' = create_item(items, item_id, data, fault = "none")
                    /\ initial_quantity' =
                          IF fault = "none"
                          THEN [i \in DOMAIN initial_quantity \cup {item_id} |->
                                  IF i = item_id THEN data.quantity
                                  ELSE initial_quantity[i]]
                          ELSE initial_quantity
                    /\ call' = ItemFormOutcome(form, existing_item, TRUE, fault = "none")
            /\ old_items' = items
            /\ old_transactions' = transactions
            /\ UNCHANGED <<transactions, val_vars, procs, suppliers, session_state>>

NextForm == ItemForm_render

SpecForm == Init /\ [][NextForm]_vars

\* ------------------------------------------------------------------------
\* SupabaseManager.delete_item next to the calls that create items and
\* transactions.  The delete is sent for the one row, whatever the ledger
\* holds; the store either removes the row or raises, and an exception is
\* caught and reported as False.
\* ------------------------------------------------------------------------
delete_item ==
    \E item_id \in RequestedIds, fault \in {"none", "delete"} :
        LET deleted == fault = "none" /\ item_id \in DOMAIN items
        IN  /\ items' = IF deleted
                        THEN [i \in DOMAIN items \ {item_id} |-> items[i]]
                        ELSE items
            /\ call' = [op |-> "delete_item", item_id |-> item_id,
                        transaction_type |-> "none", quantity |-> 0,
                        unit_price |-> 0,
                        error |-> IF fault = "none" THEN "none" ELSE "DeleteFailed",
                        returned |-> deleted, update_ok |-> TRUE]
            /\ old_items' = items
            /\ old_transactions' = transactions
            /\ UNCHANGED <<transactions, initial_quantity, val_vars, procs, suppliers, session_state>>

NextDelete ==
    \/ handle_item_submit_create
    \/ create_transaction
    \/ delete_item

SpecDelete == Init /\ [][NextDelete]_vars

\* ------------------------------------------------------------------------
\* Suppliers (SupabaseManager.create_supplier, update_supplier,
\* delete_supplier, get_suppliers) next to items that carry a supplier_id;
\* supplier_id 0 stands for None
\* ------------------------------------------------------------------------
SupplierIds == {1, 2}

SupplierFilters ==
    {[keys |-> {}, is_active |-> TRUE, name |-> "a"]}
      \cup [keys : {{"is_active"}}, is_active : BOOLEAN, name : {"a"}]
      \cup [keys : {{"name"}}, is_active : {TRUE}, name : {"a", "b"}]

SupplierOutcome(op, supplier_id, filters, result, returned) ==
    [op |-> op, supplier_id |-> supplier_id, filters |-> filters,
     result |-> result, returned |-> returned]

\* the ids a get_suppliers query returns
get_suppliers_AllRows(filters) ==
    {i \in DOMAIN suppliers :
        \A k \in filters.keys : suppliers[i][k] = filters[k]}

get_suppliers(filters) ==
    {i \in DOMAIN suppliers :
        /\ \A k \in filters.keys : suppliers[i][k] = filters[k]
        /\ "is_active" \notin filters.keys => suppliers[i].is_active = TRUE}

call_get_suppliers ==
    \E filters \in SupplierFilters :
        /\ call' = SupplierOutcome("get_suppliers", 0, filters, get_suppliers(filters), TRUE)
        /\ old_items' = items
        /\ UNCHANGED <<items, transactions, initial_quantity, old_transactions,
                       val_vars, procs, suppliers, session_state>>

create_supplier ==
    \E supplier_id \in SupplierIds \ DOMAIN suppliers, name \in {"a", "b"},
       fault \in {"none", "insert"} :
        /\ suppliers' =
              IF fault = "none"
              THEN [i \in DOMAIN suppliers \cup {supplier_id} |->
                      IF i = supplier_id THEN [name |-> name, is_active |-> TRUE]
                      ELSE suppliers[i]]
              ELSE suppliers
        /\ call' = SupplierOutcome("create_supplier", supplier_id, {}, {}, fault = "none")
        /\ old_items' = items
        /\ UNCHANGED <<items, transactions, initial_quantity, old_transactions,
                       val_vars, procs, session_state>>

\* update_supplier with a new name or with is_active set
update_supplier ==
    \E supplier_id \in SupplierIds \cup {3},
       update_data \in [name : {"a", "b"}] \cup [is_active : BOOLEAN],
       fault \in {"none", "update"} :
        /\ suppliers' = update_item(suppliers, supplier_id, update_data, fault = "none")
        /\ call' = SupplierOutcome("update_supplier", supplier_id, {}, {},
                                   fault = "none" /\ supplier_id \in DOMAIN suppliers)
        /\ old_items' = items
        /\ UNCHANGED <<items, transactions, initial_quantity, old_transactions,
                       val_vars, procs, session_state>>

delete_supplier_Cascading ==
    \E supplier_id \in SupplierIds \cup {3}, fault \in {"none", "update"} :
        /\ suppliers' = update_item(suppliers, supplier_id, [is_active |-> FALSE],
                                    fault = "none")
        /\ items' = [i \in DOMAIN items |->
                        IF items[i].supplier_id = supplier_id /\ fault = "none"
                        THEN [items[i] EXCEPT !.supplier_id = 0] ELSE items[i]]
        /\ call' = SupplierOutcome("delete_supplier", supplier_id, {}, {},
                                   fault = "none" /\ supplier_id \in DOMAIN suppliers)
        /\ old_items' = items
        /\ UNCHANGED <<transactions, initial_quantity, old_transactions,
                       val_vars, procs, session_state>>

\* one update of the suppliers row: is_active = False
delete_supplier ==
    \E supplier_id \in SupplierIds \cup {3}, fault \in {"none", "update"} :
        /\ suppliers' = update_item(suppliers, supplier_id, [is_active |-> FALSE],
                                    fault = "none")
        /\ call' = SupplierOutcome("delete_supplier", supplier_id, {}, {},
                                   fault = "none" /\ supplier_id \in DOMAIN suppliers)
        /\ old_items' = items
        /\ UNCHANGED <<items, transactions, initial_quantity, old_transactions,
                       val_vars, procs, session_state>>

\* an item created from the item form with the supplier selected there
link_item_to_supplier ==
    \E item_id \in ItemIds \ DOMAIN items, supplier_id \in {0} \cup DOMAIN suppliers :
        /\ items' = create_item(items, item_id,
                        [quantity |-> 1, unit_cost |-> 1, min_quantity |-> 1,
                         supplier_id |-> supplier_id], TRUE)
        /\ initial_quantity' = [i \in DOMAIN items \cup {item_id} |-> 1]
        /\ call' = ItemOutcome(item_id, 1, "none")
        /\ old_items' = items
        /\ UNCHANGED <<transactions, old_transactions, val_vars, procs, suppliers, session_state>>

NextSuppliers ==
    \/ create_supplier
    \/ update_supplier
    \/ delete_supplier
    \/ call_get_suppliers
    \/ link_item_to_supplier

SpecSuppliers == Init /\ [][NextSuppliers]_vars

\* ------------------------------------------------------------------------
\* Reference numbers. Strings that are formatted or sliced are sequences of
\* characters. The repository holds two create_transaction: app/database
\* (generates a reference) and vivita-inventory/app/database (inserts the
\* transaction data as given and returns None on any exception).
\* ------------------------------------------------------------------------
\* datetime.strftime('%Y%m%d'): four digits of the year, two of the month,
\* two of the day, zero padded
strftime_Ymd(now) ==
    LET digit(n) == <<"0", "1", "2", "3", "4", "5", "6", "7", "8", "9">>[n + 1]
    IN  << digit((now.year \div 1000) % 10), digit((now.year \div 100) % 10),
           digit((now.year \div 10) % 10), digit(now.year % 10),
           digit(now.month \div 10), digit(now.month % 10),
           digit(now.day \div 10), digit(now.day % 10) >>

\* f"TXN-{timestamp}-{unique_id}" with unique_id = str(uuid.uuid4())[:8]
generate_transaction_reference(now, uuid) ==
    <<"T", "X", "N", "-">> \o strftime_Ymd(now) \o <<"-">> \o SubSeq(uuid, 1, 8)

\* transaction data with a reference number, with an empty one, or with
\* no reference_number key
ReferenceTransactionData ==
    LET base == [item_id : RequestedIds, transaction_type : {"purchase", "sale"},
                 quantity : {1}, unit_price : {1}]
    IN  base \cup {td @@ [reference_number |-> r] :
                      td \in base, r \in {<<>>, <<"P", "O", "-", "7">>}}

\* app/database/supabase_manager.py create_transaction, the reference number
\* included
create_transaction_reference ==
    \E td \in ReferenceTransactionData, fault \in Faults,
       now \in {[year |-> 2024, month |-> 3, day |-> 7],
                [year |-> 2025, month |-> 12, day |-> 31]},
       uuid \in {[k \in 1..36 |-> IF k \in {9, 14, 19, 24} THEN "-" ELSE c] :
                    c \in {"0", "f"}} :
        LET found == get_item(td.item_id)
            new_quantity == NewQuantity(found[1], td.transaction_type, td.quantity)
            supplied == IF "reference_number" \in DOMAIN td
                        THEN td.reference_number ELSE <<>>
            reference_number ==
                IF supplied = <<>>
                THEN generate_transaction_reference(now, uuid)
                ELSE supplied
        IN  /\ IF found = <<>>
               THEN /\ fault = "none"
                    /\ call' = [transaction_data |-> td] @@ Outcome("create_transaction", td, "ItemNotFound",
                                       FALSE, TRUE)
                    /\ UNCHANGED <<items, transactions>>
               ELSE IF WouldBeNegative(new_quantity)
               THEN /\ fault = "none"
                    /\ call' = [transaction_data |-> td] @@ Outcome("create_transaction", td,
                                       "NegativeQuantity", FALSE, TRUE)
                    /\ UNCHANGED <<items, transactions>>
               ELSE IF fault = "insert"
               THEN /\ call' = [transaction_data |-> td] @@ Outcome("create_transaction", td, "InsertFailed",
                                       FALSE, TRUE)
                    /\ UNCHANGED <<items, transactions>>
               ELSE /\ Len(transactions) < MaxTxns
                    /\ transactions' = Append(transactions,
                          TransactionRecord(td)
                            @@ [reference_number |-> reference_number])
                    /\ items' = update_item(items, td.item_id,
                                            [quantity |-> new_quantity],
                                            fault # "update")
                    /\ call' = [transaction_data |-> td] @@ Outcome("create_transaction", td, "none", TRUE,
                                       fault # "update")
            /\ old_items' = items
            /\ old_transactions' = transactions
            /\ UNCHANGED <<initial_quantity, val_vars, procs, suppliers, session_state>>

\* vivita-inventory/app/database/supabase_manager.py create_transaction:
\* insert(transaction_data), every exception answered with None
nested_create_transaction ==
    \E td \in ReferenceTransactionData, fault \in Faults :
        LET found == get_item(td.item_id)
            new_quantity == NewQuantity(found[1], td.transaction_type, td.quantity)
        IN  /\ IF found = <<>>
               THEN /\ fault = "none"
                    /\ call' = [transaction_data |-> td] @@ Outcome("nested_create_transaction", td,
                                       "ItemNotFound", FALSE, TRUE)
                    /\ UNCHANGED <<items, transactions>>
               ELSE IF WouldBeNegative(new_quantity)
               THEN /\ fault = "none"
                    /\ call' = [transaction_data |-> td] @@ Outcome("nested_create_transaction", td,
                                       "NegativeQuantity", FALSE, TRUE)
                    /\ UNCHANGED <<items, transactions>>
               ELSE IF fault = "insert"
               THEN /\ call' = [transaction_data |-> td] @@ Outcome("nested_create_transaction", td,
                                       "InsertFailed", FALSE, TRUE)
                    /\ UNCHANGED <<items, transactions>>
               ELSE /\ Len(transactions) < MaxTxns
                    /\ transactions' = Append(transactions, td)
                    /\ items' = update_item(items, td.item_id,
                                            [quantity |-> new_quantity],
                                            fault # "update")
                    /\ call' = [transaction_data |-> td] @@ Outcome("nested_create_transaction", td, "none",
                                       TRUE, fault # "update")
            /\ old_items' = items
            /\ old_transactions' = transactions
            /\ UNCHANGED <<initial_quantity, val_vars, procs, suppliers, session_state>>

NextReference ==
    \/ handle_item_submit_create
    \/ create_transaction_reference
    \/ nested_create_transaction

SpecReference == Init /\ [][NextReference]_vars

\* ------------------------------------------------------------------------
\* The balance reconstructions over the store (main.py: "Transactions by
\* Item" of render_transactions_page, and export_data_to_csv). The store
\* stamps created_at at insert, so the position in the ledger stands for it;
\* get_transactions returns the newest first. Each result carries the item
\* row and the item's transactions (oldest first) it was computed from.
\* ------------------------------------------------------------------------
render_transactions_page ==
    \E i \in DOMAIN items :
        LET n == Len(transactions)
            get_transactions ==
                [k \in 1..n |-> transactions[n + 1 - k] @@ [created_at |-> n + 1 - k]]
            item == [id |-> i, quantity |-> items[i].quantity]
            item_trans == sorted_by_created_at(ItemTransactions(get_transactions, i))
        IN  /\ item_trans # <<>>
            /\ val_out' = Returned("render_transactions_page",
                  [item_id |-> i, quantity |-> item.quantity,
                   item_trans |-> item_trans,
                   initial_balance |->
                       initial_balance(item_trans, Len(item_trans), item.quantity),
                   balances |-> item_view_balances(item, get_transactions)])
            /\ UNCHANGED <<store_vars, val_items, val_transactions, procs, suppliers, session_state>>

\* the balance_qty column of one item's rows: starts at the quantity of the
\* items table, purchase adds, sale subtracts, adjustment sets, any other type
\* leaves the balance
RECURSIVE balance_qty(_, _, _)
balance_qty(item_trans, k, qty_balance) ==
    IF k > Len(item_trans) THEN <<>>
    ELSE LET row == item_trans[k]
             next == IF row.transaction_type = "purchase"
                     THEN qty_balance + row.quantity
                     ELSE IF row.transaction_type = "sale"
                     THEN qty_balance - row.quantity
                     ELSE IF row.transaction_type = "adjustment"
                     THEN row.quantity
                     ELSE qty_balance
         IN  <<next>> \o balance_qty(item_trans, k + 1, next)

\* export_data_to_csv, the quantity balances of one item's rows; without
\* any transaction there is nothing to export
export_data_to_csv ==
    \E i \in DOMAIN items :
        LET n == Len(transactions)
            get_transactions ==
                [k \in 1..n |-> transactions[n + 1 - k] @@ [created_at |-> n + 1 - k]]
            item_trans == ItemTransactions(sorted_by_created_at(get_transactions), i)
        IN  /\ transactions # <<>>
            /\ val_out' = Returned("export_data_to_csv",
                  [item_id |-> i, quantity |-> items[i].quantity,
                   item_trans |-> item_trans,
                   balance_qty |-> balance_qty(item_trans, 1, items[i].quantity)])
            /\ UNCHANGED <<store_vars, val_items, val_transactions, procs, suppliers, session_state>>

NextBalances ==
    \/ handle_item_submit_create
    \/ create_transaction
    \/ render_transactions_page
    \/ export_data_to_csv

SpecBalances == Init /\ [][NextBalances]_vars

\* ------------------------------------------------------------------------
\* Navigation (main.py handle_page_change, the click callbacks and main;
\* Sidebar.render; the quick actions of Dashboard). A callback sets call to
\* its name, the page it selects and the form flag it raises, and clears
\* val_out; main records in val_out the page it dispatched to and the flags
\* that page saw.
\* ------------------------------------------------------------------------
Pages == {"dashboard", "inventory", "suppliers", "transactions", "analytics",
          "settings"}

\* for "inventory" the three stored values are written back as they were
handle_page_change(ss, new_page) ==
    IF new_page = "inventory"
    THEN [ss EXCEPT !.page = new_page]
    ELSE [ss EXCEPT !.page = new_page, !.editing_item = 0,
                    !.quick_update_item = 0, !.show_new_item_form = FALSE]

Clicked(op, page, flag, ss) ==
    /\ session_state' = ss
    /\ call' = [op |-> op, page |-> page, flag |-> flag]
    /\ val_out' = NoOut
    /\ UNCHANGED <<items, transactions, initial_quantity, old_items,
                   old_transactions, val_items, val_transactions, procs,
                   suppliers>>

\* the callbacks of main.py read no page: they act the same from every page
on_new_item_click ==
    /\ session_state.page \in Pages
    /\ Clicked("on_new_item_click", "inventory", "show_new_item_form",
               [handle_page_change(session_state, "inventory")
                   EXCEPT !.show_new_item_form = TRUE])

on_new_transaction_click ==
    /\ session_state.page \in Pages
    /\ Clicked("on_new_transaction_click", "transactions",
               "show_new_transaction_form",
               [handle_page_change(session_state, "transactions")
                   EXCEPT !.show_new_transaction_form = TRUE])

on_order_item_click ==
    /\ session_state.page \in Pages
    /\ \E item_id \in ItemIds :
        Clicked("on_order_item_click", "transactions",
                "show_new_transaction_form",
                [handle_page_change(session_state, "transactions")
                    EXCEPT !.show_new_transaction_form = TRUE,
                           !.selected_item_id = item_id,
                           !.default_transaction_type = "purchase"])

on_edit_item_click ==
    /\ session_state.page \in Pages
    /\ \E item_id \in ItemIds :
        Clicked("on_edit_item_click", session_state.page, "none",
                [session_state EXCEPT !.editing_item = item_id,
                                      !.show_new_item_form = FALSE])

\* the quick actions are buttons of the rendered dashboard
Dashboard_handle_new_item_click ==
    /\ session_state.page = "dashboard"
    /\ Clicked("_handle_new_item_click", "inventory", "show_new_item_form",
               [session_state EXCEPT !.show_new_item_form = TRUE,
                                     !.editing_item = 0,
                                     !.quick_update_item = 0,
                                     !.selected_item_id = 0,
                                     !.nav_page = "inventory"])

Dashboard_handle_new_transaction_click ==
    /\ session_state.page = "dashboard"
    /\ Clicked("_handle_new_transaction_click", "transactions",
               "show_new_transaction_form",
               [session_state EXCEPT !.show_new_transaction_form = TRUE,
                                     !.selected_item_id = 0,
                                     !.editing_item = 0,
                                     !.nav_page = "transactions"])

Dashboard_handle_order_click ==
    /\ session_state.page = "dashboard"
    /\ \E item_id \in ItemIds :
          Clicked("_handle_order_click", "transactions",
                  "show_new_transaction_form",
                  [session_state EXCEPT !.show_new_transaction_form = TRUE,
                                        !.selected_item_id = item_id,
                                        !.default_transaction_type = "purchase",
                                        !.editing_item = 0,
                                        !.nav_page = "transactions"])

\* a navigation button of the sidebar; the current entry is text, not a button
Sidebar_handle_nav_click ==
    /\ session_state.page \in Pages
    /\ \E page \in Pages \ {session_state.nav_page} :
        Clicked("_handle_nav_click", page, "none",
                [session_state EXCEPT !.nav_page = page])

\* Sidebar.render(handle_page_change, current_page)
Sidebar_render(ss, current_page) ==
    IF ss.nav_page # current_page
    THEN handle_page_change(ss, ss.nav_page)
    ELSE ss

\* one pass of main: the sidebar, then the page st.session_state.page names;
\* Dashboard.render ends by copying a nav_page other than "dashboard" to page
main ==
    LET synced == Sidebar_render(session_state, session_state.page)
    IN  /\ val_out' = Returned("main",
              [page |-> synced.page,
               show_new_item_form |-> synced.show_new_item_form,
               show_new_transaction_form |-> synced.show_new_transaction_form])
        /\ session_state' =
              IF synced.page = "dashboard" /\ synced.nav_page # "dashboard"
              THEN [synced EXCEPT !.page = synced.nav_page]
              ELSE synced
        /\ UNCHANGED <<store_vars, val_items, val_transactions, procs, suppliers>>

NextNavigation ==
    \/ main
    \/ on_new_item_click
    \/ on_new_transaction_click
    \/ on_order_item_click
    \/ on_edit_item_click
    \/ Dashboard_handle_new_item_click
    \/ Dashboard_handle_new_transaction_click
    \/ Dashboard_handle_order_click
    \/ Sidebar_handle_nav_click

SpecNavigation == Init /\ [][NextNavigation]_vars

\* ------------------------------------------------------------------------
\* Properties of the Transaction Processor (specification Spec)
\* ------------------------------------------------------------------------
CalledCreateTransaction == call.op = "create_transaction"
ItemExisted == call.item_id \in DOMAIN old_items
OldQuantity == old_items[call.item_id].quantity
Accepted == CalledCreateTransaction /\ call.returned
Failed == CalledCreateTransaction /\ call.error # "none"

\* the delta rule of the design: additions, subtractions, and adjustment as a
\* direct set
AddingTypes == {"purchase", "transfer_in", "return", "credit_note"}
SubtractingTypes == {"sale", "transfer_out", "loss", "write_off", "debit_note"}

\* C1: whatever create_transaction calls were made, one at a time, on items
\* that started with a quantity >= 0, no item's persisted quantity is negative.
C1_QuantityNeverNegative ==
    \A i \in DOMAIN items : items[i].quantity >= 0

\* a stock-reducing transaction was accepted and took the item down to 0
C1_Witness ==
    /\ Accepted
    /\ call.transaction_type \in {"sale", "transfer_out", "loss"}
    /\ call.quantity > 0
    /\ items[call.item_id].quantity = 0

\* C2: a sale whose quantity exceeds the item's current quantity is rejected
\* with the negative-quantity error, the item's quantity is what it was before
\* the call and no ledger entry is appended.
C2_OverdrawingSaleRejected ==
    (/\ CalledCreateTransaction
     /\ call.transaction_type = "sale"
     /\ ItemExisted
     /\ call.quantity > OldQuantity)
    => (/\ call.error = "NegativeQuantity"
        /\ ~call.returned
        /\ call.item_id \in DOMAIN items
        /\ items[call.item_id].quantity = OldQuantity
        /\ transactions = old_transactions)

\* a sale of 2 against an item holding 1 was rejected and the item still holds 1
C2_Witness ==
    /\ CalledCreateTransaction
    /\ call.transaction_type = "sale"
    /\ ItemExisted
    /\ OldQuantity = 1
    /\ call.quantity = 2
    /\ call.error = "NegativeQuantity"
    /\ items[call.item_id].quantity = 1

\* the quantity the design's delta rule gives after replaying ledger entries
\* k..Len(ledger) of one item from quantity q
RECURSIVE ReplayLedger(_, _, _, _)
ReplayLedger(q, ledger, item_id, k) ==
    IF k > Len(ledger) THEN q
    ELSE LET t == ledger[k]
             next == IF t.item_id # item_id THEN q
                     ELSE IF t.transaction_type \in AddingTypes THEN q + t.quantity
                     ELSE IF t.transaction_type \in SubtractingTypes THEN q - t.quantity
                     ELSE t.quantity
         IN  ReplayLedger(next, ledger, item_id, k + 1)

\* the ledger holds only transactions of the data model: positive quantities
LedgerWellFormed ==
    \A k \in 1..Len(transactions) : transactions[k].quantity > 0

\* C3: in every reachable state an item's quantity is its initial quantity
\* plus the signed deltas of the transactions recorded for it in the ledger
\* (stated for ledgers of positive quantities).
C3_QuantityIsInitialPlusDeltas ==
    LedgerWellFormed =>
        \A i \in DOMAIN items :
            items[i].quantity =
                ReplayLedger(initial_quantity[i], transactions, i, 1)

\* C4: an accepted non-adjustment transaction of quantity q leaves the item at
\* old + q for purchase, transfer_in, return, credit_note and at old - q for
\* sale, transfer_out, loss, write_off, debit_note (stated for q > 0).
C4_SignedDeltaApplied ==
    (Accepted /\ call.transaction_type # "adjustment" /\ call.quantity > 0)
    => items[call.item_id].quantity =
          IF call.transaction_type \in AddingTypes
          THEN OldQuantity + call.quantity
          ELSE OldQuantity - call.quantity

\* C5: an accepted adjustment of quantity q leaves the item's quantity at q,
\* whatever it was before (stated for q > 0).
C5_AdjustmentSetsQuantity ==
    (Accepted /\ call.transaction_type = "adjustment" /\ call.quantity > 0)
    => items[call.item_id].quantity = call.quantity

\* C6: when create_transaction fails (item not found, overdraw, or the store
\* rejecting the insert) every item's persisted quantity is what it was before
\* the call.
C6_FailureLeavesQuantity ==
    Failed =>
        /\ DOMAIN items = DOMAIN old_items
        /\ \A i \in DOMAIN items : items[i].quantity = old_items[i].quantity

\* the store rejected the insert of a transaction that had passed validation
\* and would have changed the quantity
C6_Witness ==
    /\ Failed
    /\ call.error = "InsertFailed"
    /\ ItemExisted
    /\ NewQuantity(old_items[call.item_id], call.transaction_type, call.quantity)
          # OldQuantity

\* C7: create_transaction for an item_id that resolves to no item fails with
\* the not-found error before anything is written: the ledger and every item
\* are as before.
C7_UnknownItemRejected ==
    (CalledCreateTransaction /\ ~ItemExisted)
    => (/\ call.error = "ItemNotFound"
        /\ ~call.returned
        /\ transactions = old_transactions
        /\ items = old_items)

\* a transaction named an unknown id while another item existed
C7_Witness ==
    /\ CalledCreateTransaction
    /\ ~ItemExisted
    /\ old_items # <<>>
    /\ call.error = "ItemNotFound"

\* ------------------------------------------------------------------------
\* Properties of the Valuation Engine (specification SpecVal)
\* ------------------------------------------------------------------------
CalledWeightedAverageCost == val_out.fn = "calculate_weighted_average_cost"

CalledTotalValue ==
    val_out.fn \in {"helpers.calculate_total_value", "analytics.calculate_total_value"}

PurchaseIndices(txns) ==
    {k \in 1..Len(txns) : txns[k].transaction_type = "purchase"}

RECURSIVE SumQuantity(_, _)
SumQuantity(txns, S) ==
    IF S = {} THEN 0
    ELSE LET k == CHOOSE x \in S : TRUE
         IN  txns[k].quantity + SumQuantity(txns, S \ {k})

RECURSIVE SumCost(_, _)
SumCost(txns, S) ==
    IF S = {} THEN 0
    ELSE LET k == CHOOSE x \in S : TRUE
         IN  txns[k].quantity * txns[k].unit_price + SumCost(txns, S \ {k})

\* C8: weightedAverageCost over any list of transactions is (sum of
\* quantity x unit_price over the purchases) / (sum of quantity over the
\* purchases); for an empty list, a list without purchases or purchases of
\* total quantity 0 it is exactly 0, and it never divides by zero.
C8_WeightedAverageCost ==
    CalledWeightedAverageCost =>
        LET P == PurchaseIndices(val_transactions)
            total_quantity == SumQuantity(val_transactions, P)
            total_cost == SumCost(val_transactions, P)
        IN  /\ val_out.value.den # 0
            /\ IF total_quantity = 0
               THEN val_out.value = Decimal(0)
               ELSE val_out.value.num * total_quantity = total_cost * val_out.value.den

\* two purchases at different prices, 1 @ 1 and 2 @ 2, averaged to 5/3
C8_Witness ==
    /\ CalledWeightedAverageCost
    /\ Len(val_transactions) = 2
    /\ \A k \in 1..2 : val_transactions[k].transaction_type = "purchase"
    /\ val_out.value = [num |-> 5, den |-> 3]

HasPurchases(item, txns) ==
    \E k \in 1..Len(txns) :
        txns[k].item_id = item.id /\ txns[k].transaction_type = "purchase"

HasNoTransactions(item, txns) ==
    \A k \in 1..Len(txns) : txns[k].item_id # item.id

\* the weighted-average purchase cost of one item's own transactions
WeightedAveragePurchaseCost(item, txns) ==
    LET P == {k \in PurchaseIndices(txns) : txns[k].item_id = item.id}
        total_quantity == SumQuantity(txns, P)
    IN  IF total_quantity = 0 THEN Decimal(0)
        ELSE Frac(SumCost(txns, P), total_quantity)

StatedItemValue(item, txns) ==
    IF HasPurchases(item, txns)
    THEN DecMul(Decimal(item.quantity), WeightedAveragePurchaseCost(item, txns))
    ELSE DecMul(Decimal(item.quantity), Decimal(item.unit_cost))

RECURSIVE StatedTotalValue(_, _, _)
StatedTotalValue(its, txns, S) ==
    IF S = {} THEN Decimal(0)
    ELSE LET k == CHOOSE x \in S : TRUE
         IN  DecAdd(StatedItemValue(its[k], txns),
                    StatedTotalValue(its, txns, S \ {k}))

Reorderings(txns) ==
    {[k \in 1..Len(txns) |-> txns[p[k]]] : p \in Permutations(1..Len(txns))}

\* C10: for fixed items, totalValue returns the same value for every
\* permutation of the transaction list.
C10_OrderIndependent ==
    \A r \in Reorderings(val_transactions) :
        /\ val_out.fn = "analytics.calculate_total_value"
              => analytics_calculate_total_value(val_items, r) = val_out.value
        /\ val_out.fn = "helpers.calculate_total_value"
              => helpers_calculate_total_value(val_items, r) = val_out.value

\* two purchases of one listed item at different prices, so that the order
\* of the list is visible to an order-dependent aggregation
C10_Witness ==
    /\ val_out.fn = "analytics.calculate_total_value"
    /\ Len(val_transactions) = 2
    /\ Len(val_items) >= 1
    /\ \A k \in 1..2 :
          /\ val_transactions[k].item_id = val_items[1].id
          /\ val_transactions[k].transaction_type = "purchase"
          /\ val_transactions[k].quantity > 0
    /\ val_transactions[1].unit_price # val_transactions[2].unit_price
    /\ Cardinality(Reorderings(val_transactions)) = 2

\* ------------------------------------------------------------------------
\* Properties of the running balance (specification SpecBal)
\* ------------------------------------------------------------------------
ChronologicallySorted(txns) ==
    \A i, j \in 1..Len(txns) : i < j => txns[i].created_at <= txns[j].created_at

\* C11: for any item and any chronologically sorted history of that item,
\* of any transaction types, the balance computed for the last transaction
\* by the backward-then-forward pass equals the item's current quantity.
C11_BalanceRoundTrip ==
    ( /\ val_out.fn = "item_view_balances"
      /\ val_out.value # <<>>
      /\ ChronologicallySorted(val_transactions) )
    => val_out.value[Len(val_out.value)] = val_items[1].quantity

\* ------------------------------------------------------------------------
\* Properties of concurrent calls (specification SpecRace)
\* ------------------------------------------------------------------------
BothReturned == \A p \in Callers : procs[p].pc = "returned"

DeltaOf(p) == QuantityChange(procs[p].td.transaction_type, procs[p].td.quantity)

\* C12: two applyTransaction calls on one item can interleave their
\* read-compute-write steps so that both succeed and both ledger entries
\* are recorded while the persisted quantity is not the initial quantity
\* plus both deltas.  As an invariant: when both calls have returned, both
\* records are in the ledger and the persisted quantity is the one a
\* single caller computed from its own read, whatever the other caller
\* wrote in between; the witness is the lost update itself.
C12_LastWriterWins ==
    BothReturned =>
        /\ Len(transactions) = 2
        /\ \A p \in Callers :
              \E k \in 1..2 : transactions[k] = TransactionRecord(procs[p].td)
        /\ \E p \in Callers : items[1].quantity = procs[p].new_quantity

C12_Witness ==
    /\ BothReturned
    /\ Len(transactions) = 2
    /\ \A p \in Callers : procs[p].td.item_id = 1
    /\ items[1].quantity # initial_quantity[1] + DeltaOf(1) + DeltaOf(2)

\* C27: under every interleaving of the read, insert and write steps of
\* concurrent create_transaction calls on one item, the persisted quantity
\* of the item is never negative, even when the quantity the ledger implies
\* (initial quantity plus all recorded deltas) is negative.
C27_PersistedNeverNegative ==
    /\ \A i \in DOMAIN items : items[i].quantity >= 0
    /\ \A p \in Callers :
          procs[p].pc \in {"insert", "update", "returned"} =>
              WrittenQuantity(p) >= 0

C27_Witness ==
    /\ BothReturned
    /\ Len(transactions) = 2
    /\ initial_quantity[1] + DeltaOf(1) + DeltaOf(2) < 0
    /\ items[1].quantity >= 0

\* ------------------------------------------------------------------------
\* Properties of the stock alerts (specification SpecAlerts)
\* ------------------------------------------------------------------------
CalledStockAlerts == val_out.fn = "get_stock_alerts"

AlertsFor(id) == {k \in 1..Len(val_out.value) : val_out.value[k].id = id}

AscendingRatio(alerts) ==
    \A i, j \in 1..Len(alerts) :
        i < j =>
           IF alerts[j].min_quantity = 0 THEN TRUE
           ELSE /\ alerts[i].min_quantity # 0
                /\ alerts[i].current_quantity * alerts[j].min_quantity
                      <= alerts[j].current_quantity * alerts[i].min_quantity

\* C21: the list returned by stockAlerts is sorted ascending by
\* current_quantity / min_quantity, so the most critically understocked
\* item is first, and items with min_quantity = 0 sort last without any
\* division by zero.
C21_AlertsSortedByRatio ==
    /\ CalledStockAlerts => AscendingRatio(val_out.value)
    /\ val_out.fn = "render_stock_alerts" =>
          /\ val_out.value.raised = "none"
          /\ AscendingRatio(val_out.value.critical_items)

CalledTopSelling == val_out.fn = "get_top_selling_items"

ItemsWithSales ==
    {val_transactions[k].item_id : k \in {j \in 1..Len(val_transactions) :
                                       val_transactions[j].transaction_type = "sale"}}

\* C14: topSellingItems never returns more than 5 entries, however many
\* items have sale transactions in the window.
C14_AtMostFive == CalledTopSelling => Len(val_out.value) <= 5

\* six listed items with sales, five entries returned
C14_Witness ==
    /\ CalledTopSelling
    /\ Cardinality(ItemsWithSales) = 6
    /\ Len(val_items) = 6
    /\ Len(val_out.value) = 5

SaleIndices(id) ==
    {k \in 1..Len(val_transactions) :
        /\ val_transactions[k].item_id = id
        /\ val_transactions[k].transaction_type = "sale"}

PositionInItems(id) == CHOOSE k \in 1..Len(val_items) : val_items[k].id = id

\* C15: the entries are ordered by descending revenue, an item's revenue
\* being the sum of quantity x unit_price over its sale transactions only,
\* and entries of equal revenue keep the order of their items in the item
\* list.
C15_OrderedByRevenue ==
    CalledTopSelling =>
        /\ \A e \in 1..Len(val_out.value) :
              /\ \E k \in 1..Len(val_items) : val_items[k].id = val_out.value[e].name
              /\ val_out.value[e].revenue =
                    SumCost(val_transactions, SaleIndices(val_out.value[e].name))
        /\ \A e, f \in 1..Len(val_out.value) :
              e < f =>
                 /\ val_out.value[e].revenue >= val_out.value[f].revenue
                 /\ val_out.value[e].revenue = val_out.value[f].revenue
                       => PositionInItems(val_out.value[e].name)
                            < PositionInItems(val_out.value[f].name)

\* a tie between two entries, an entry moved ahead of an earlier item by its
\* revenue, and a purchase of a returned item that adds nothing to it
C15_Witness ==
    /\ CalledTopSelling
    /\ \E e, f \in 1..Len(val_out.value) :
          /\ e < f
          /\ val_out.value[e].revenue = val_out.value[f].revenue
    /\ \E e, f \in 1..Len(val_out.value) :
          /\ e < f
          /\ PositionInItems(val_out.value[e].name) > PositionInItems(val_out.value[f].name)
    /\ \E k \in 1..Len(val_transactions) :
          /\ val_transactions[k].transaction_type = "purchase"
          /\ \E e \in 1..Len(val_out.value) :
                val_out.value[e].name = val_transactions[k].item_id

\* ------------------------------------------------------------------------
\* Properties of create_item (specification SpecCreate)
\* ------------------------------------------------------------------------
CalledCreateItem == call.op = "create_item"

InvalidItemData(item_data) ==
    \/ required_fields \ item_data.fields # {}
    \/ \E f \in {"quantity", "unit_cost", "min_quantity"} : item_data[f].kind = "string"

\* C16: create_item raises ValueError when a required field is missing or
\* a numeric field holds a non-numeric value, and in that case nothing is
\* inserted into the store.
C16_CreateItemRaises ==
    (CalledCreateItem /\ InvalidItemData(call.item_data)) =>
        /\ call.raised = "ValueError"
        /\ items = old_items

\* ------------------------------------------------------------------------
\* Properties of the item form (specification SpecForm)
\* ------------------------------------------------------------------------
\* C17: submitting the ItemForm with an initial quantity below min_quantity,
\* or with an empty name, never invokes the on_submit callback, so no item
\* is created or updated from such a submission.
C17_InvalidFormNotSubmitted ==
    ( /\ call.op = "ItemForm.render"
      /\ \/ call.form.name = ""
         \/ call.form.initial_qty < call.form.min_quantity )
    => /\ ~call.on_submit_called
       /\ items = old_items

\* ------------------------------------------------------------------------
\* Properties of the ledger (specifications SpecDelete and Spec)
\* ------------------------------------------------------------------------
\* C18: in every reachable state, every transaction in the ledger references
\* an item that exists in the store, for any sequence of create_item,
\* create_transaction and delete_item operations.
C18_LedgerReferencesItems ==
    \A k \in 1..Len(transactions) : transactions[k].item_id \in DOMAIN items

Inserted == {p \in Callers : procs[p].pc \in {"update", "returned"}}

\* C19: the ledger is append-only under applyTransaction: each successful
\* call adds exactly one transaction record and leaves the item_id,
\* transaction_type, quantity and unit_price of every previously recorded
\* transaction unchanged.
C19_AppendOnly ==
    /\ [](Len(transactions) = Cardinality(Inserted))
    /\ [][ \/ transactions' = transactions
           \/ \E p \in Callers :
                 /\ procs[p].pc = "insert"
                 /\ transactions' = Append(transactions, TransactionRecord(procs[p].td))
         ]_vars

\* a second call has succeeded after a first one with other data
C19_Witness ==
    /\ BothReturned
    /\ Len(transactions) = 2
    /\ transactions[1] # transactions[2]
    /\ transactions[1].transaction_type = "purchase"
    /\ transactions[2].transaction_type = "sale"

\* ------------------------------------------------------------------------
\* Properties of the suppliers (specification SpecSuppliers)
\* ------------------------------------------------------------------------
DeletedSupplier == call.op = "delete_supplier" /\ call.returned

\* C20: delete_supplier is a soft delete that does not cascade: after it,
\* the supplier record still exists with is_active = false, every item keeps
\* its supplier_id and all other fields unchanged, and the supplier no
\* longer appears in get_suppliers() called without an is_active filter.
C20_SoftDelete ==
    /\ DeletedSupplier =>
          /\ call.supplier_id \in DOMAIN suppliers
          /\ suppliers[call.supplier_id].is_active = FALSE
          /\ \A filters \in SupplierFilters :
                "is_active" \notin filters.keys
                   => call.supplier_id \notin get_suppliers(filters)
    /\ call.op = "delete_supplier" => items = old_items
    /\ (call.op = "get_suppliers" /\ "is_active" \notin call.filters.keys)
          => \A i \in call.result : suppliers[i].is_active

\* the supplier an item refers to has been deleted
C20_Witness ==
    /\ DeletedSupplier
    /\ \E i \in DOMAIN items : items[i].supplier_id = call.supplier_id
    /\ \E i \in DOMAIN suppliers : suppliers[i].is_active

\* ------------------------------------------------------------------------
\* Properties of the reference numbers (specification SpecReference)
\* ------------------------------------------------------------------------
\* TXN-<date>-<8-character id>: 21 characters, the date as eight digits
GeneratedForm(r) ==
    /\ Len(r) = 21
    /\ SubSeq(r, 1, 4) = <<"T", "X", "N", "-">>
    /\ \A k \in 5..12 :
          r[k] \in {"0", "1", "2", "3", "4", "5", "6", "7", "8", "9"}
    /\ r[13] = "-"
    /\ \A k \in 14..21 : r[k] # "-"

PersistedBy(op) ==
    /\ call.op = op
    /\ call.returned
    /\ Len(transactions) = Len(old_transactions) + 1

\* C23: every transaction persisted by applyTransaction has a non-empty
\* reference_number: one supplied by the caller is stored unchanged, and an
\* absent or empty one is replaced by a generated reference of the form
\* TXN-<date>-<8-character id>.
C23_ReferenceNumber ==
    \A op \in {"create_transaction", "nested_create_transaction"} :
        PersistedBy(op) =>
            LET stored == transactions[Len(transactions)]
                td == call.transaction_data
            IN  /\ "reference_number" \in DOMAIN stored
                /\ stored.reference_number # <<>>
                /\ IF "reference_number" \in DOMAIN td
                      /\ td.reference_number # <<>>
                   THEN stored.reference_number = td.reference_number
                   ELSE GeneratedForm(stored.reference_number)

\* ------------------------------------------------------------------------
\* Properties of the submit handler (specification SpecSubmit)
\* ------------------------------------------------------------------------
\* C24: every rejection of a transaction because it would drive the item's
\* quantity negative, whichever stock-reducing type it has (sale,
\* transfer_out, loss, ...), is reported as an insufficient-stock error that
\* carries the item's current available quantity.
C24_InsufficientStockReported ==
    /\ call.op \in {"handle_transaction_submit", "create_transaction"}
    /\ call.error \in {"NegativeQuantity", "NotEnoughStock"}
    => call.error = "NotEnoughStock"

\* C25: if create_transaction returns a record, both the ledger insert and
\* the item-quantity update took effect; a failed item-quantity update is
\* never reported as success.
C25_SuccessMeansBothWrites ==
    (Accepted /\ ItemExisted) =>
        /\ transactions = Append(old_transactions,
                                 transactions[Len(transactions)])
        /\ call.update_ok
        /\ items[call.item_id].quantity =
              NewQuantity(old_items[call.item_id], call.transaction_type,
                          call.quantity)

\* ------------------------------------------------------------------------
\* The two total-value functions compared (specification SpecVal)
\* ------------------------------------------------------------------------
\* C26: helpers.calculate_total_value and analytics_manager's
\* calculate_total_value return the same value for every list of items and
\* transactions, items that have transactions but no purchase and an empty
\* transaction list included.
C26_TotalValuesAgree ==
    /\ val_out.fn = "helpers.calculate_total_value" =>
          val_out.value = analytics_calculate_total_value(val_items, val_transactions)
    /\ val_out.fn = "analytics.calculate_total_value" =>
          val_out.value = helpers_calculate_total_value(val_items, val_transactions)

\* ------------------------------------------------------------------------
\* Properties of the balance reconstructions (specification SpecBalances)
\* ------------------------------------------------------------------------
\* the quantity after the first k of an item's transactions, by the rule
\* create_transaction applies, starting from q
RECURSIVE QuantityAfter(_, _, _)
QuantityAfter(q, item_trans, k) ==
    IF k = 0 THEN q
    ELSE QuantityAfter(q, item_trans, k - 1)
           + QuantityChange(item_trans[k].transaction_type, item_trans[k].quantity)

\* every update of the item took effect: the row holds what the accepted
\* transactions made of the initial quantity
EveryUpdateStored(v) ==
    v.quantity = QuantityAfter(initial_quantity[v.item_id], v.item_trans,
                               Len(v.item_trans))

\* C28: for an item that evolved from an initial quantity q0 only through
\* successful create_transaction calls, of any accepted types, the
\* running-balance reconstruction yields initial balance q0 and, for every
\* transaction, a balance equal to the actual quantity after it.
C28_ReconstructionMatchesHistory ==
    ( /\ val_out.fn = "render_transactions_page"
      /\ EveryUpdateStored(val_out.value) )
    => LET v == val_out.value
           q0 == initial_quantity[v.item_id]
       IN  /\ v.initial_balance = q0
           /\ \A k \in 1..Len(v.item_trans) :
                 v.balances[k] = QuantityAfter(q0, v.item_trans, k)

\* C29: in the CSV export, balance_qty on the chronologically last row of
\* each item equals the item's current quantity and agrees with the final
\* balance of the item-view reconstruction.
C29_ExportFinalBalance ==
    ( /\ val_out.fn = "export_data_to_csv"
      /\ val_out.value.item_trans # <<>>
      /\ EveryUpdateStored(val_out.value) )
    => LET v == val_out.value
           last == v.balance_qty[Len(v.balance_qty)]
           view == item_view_balances([id |-> v.item_id, quantity |-> v.quantity],
                                      v.item_trans)
       IN  /\ last = v.quantity
           /\ last = view[Len(view)]

\* ------------------------------------------------------------------------
\* Properties of the navigation (specification SpecNavigation)
\* ------------------------------------------------------------------------
NavigationHandlers ==
    {"on_new_item_click", "on_new_transaction_click", "on_order_item_click",
     "_handle_new_item_click", "_handle_new_transaction_click",
     "_handle_order_click"}

====
